---- MODULE Spec2Model ----
(***************************************************************************)
(* IBAN validation engine of iban_tools/validator.py: the country          *)
(* registry COUNTRY_SPECS, the sanitizer, the MOD-97 (ISO 7064) check,     *)
(* validate_iban and get_country_spec.                                     *)
(*                                                                         *)
(* A Python str is a sequence of Unicode code points.  A Python int is     *)
(* arbitrary precision; it is kept as a sign and a little-endian sequence  *)
(* of limbs of seven decimal digits, so that int(numeric_str) % 97 is      *)
(* computed on the whole integer.  An exception is an outcome with         *)
(* raised = TRUE.                                                          *)
(***************************************************************************)
EXTENDS Integers, Sequences, FiniteSets, TLC

(***************************************************************************)
(* Text                                                                    *)
(***************************************************************************)

\* The printable ASCII characters, code points 32..126, in order (34, 92 and
\* 96 by name).
ASCII == <<
    " ", "!", "QUOTATION MARK", "#", "$", "%", "&", "'", "(", ")", "*", "+", ",", "-", ".", "/",
    "0", "1", "2", "3", "4", "5", "6", "7", "8", "9", ":", ";", "<", "=", ">", "?",
    "@", "A", "B", "C", "D", "E", "F", "G", "H", "I", "J", "K", "L", "M", "N", "O",
    "P", "Q", "R", "S", "T", "U", "V", "W", "X", "Y", "Z", "[", "REVERSE SOLIDUS", "]", "^", "_",
    "GRAVE ACCENT", "a", "b", "c", "d", "e", "f", "g", "h", "i", "j", "k", "l", "m", "n", "o",
    "p", "q", "r", "s", "t", "u", "v", "w", "x", "y", "z", "{", "|", "}", "~"
>>

\* The code point of a printable ASCII character.
CodePoint(c) == 31 + (CHOOSE i \in 1..Len(ASCII) : ASCII[i] = c)

\* A str literal, written character by character.
Text(cs) == [i \in 1..Len(cs) |-> CodePoint(cs[i])]

\* Characters outside ASCII that the inputs use:
\*   178 SUPERSCRIPT TWO            isdigit(), not a decimal digit for int()
\*   201 LATIN CAPITAL E ACUTE      isalpha()
\*   223 LATIN SMALL SHARP S        isalpha(), upper() is "SS"
\*   233 LATIN SMALL E ACUTE        isalpha(), upper() is 201
\*   305 LATIN SMALL DOTLESS I      isalpha(), upper() is "I"
\*  1634 ARABIC-INDIC DIGIT TWO     isdigit(), decimal digit 2 for int()

\* The character class [A-Za-z0-9] of the sanitizer's pattern.
InClassAlnum(c) == c \in 48..57 \/ c \in 65..90 \/ c \in 97..122

\* A mutation of re_sub: only blanks and hyphens are removed.
re_sub_separators(s) == SelectSeq(s, LAMBDA c : c \notin {32, 45})

\* re.sub(r"[^A-Za-z0-9]", "", s): every character outside the class is removed.
re_sub(s) == SelectSeq(s, InClassAlnum)

\* str.upper() of one character (a sequence: one character may become two).
upper_char(c) ==
    IF c \in 97..122 THEN <<c - 32>>
    ELSE IF c = 233 THEN <<201>>
    ELSE IF c = 223 THEN <<83, 83>>
    ELSE IF c = 305 THEN <<73>>
    ELSE <<c>>

RECURSIVE Concat(_, _, _)
\* The pieces parts[lo], ..., parts[hi] joined in order (by halves).
Concat(parts, lo, hi) ==
    IF lo > hi THEN <<>>
    ELSE IF lo = hi THEN parts[lo]
    ELSE Concat(parts, lo, (lo + hi) \div 2) \o Concat(parts, ((lo + hi) \div 2) + 1, hi)

\* str.upper().
upper(s) == Concat([i \in 1..Len(s) |-> upper_char(s[i])], 1, Len(s))

\* str.isalpha() and str.isdigit() of one character.
isalpha_char(c) == c \in 65..90 \/ c \in 97..122 \/ c \in {201, 223, 233, 305}
isdigit_char(c) == c \in 48..57 \/ c \in {178, 1634}

\* str.isalpha(), str.isdigit(): false on the empty string.
isalpha(s) == s # <<>> /\ \A i \in 1..Len(s) : isalpha_char(s[i])
isdigit(s) == s # <<>> /\ \A i \in 1..Len(s) : isdigit_char(s[i])

\* The slices s[lo:hi] and s[lo:] for 0 <= lo <= hi (indices past the end clamp).
Slice(s, lo, hi) == SubSeq(s, lo + 1, IF hi < Len(s) THEN hi ELSE Len(s))
SliceFrom(s, lo) == SubSeq(s, lo + 1, Len(s))

RECURSIVE Digits(_)
\* The decimal digits of n >= 0, as characters.
Digits(n) == IF n < 10 THEN <<48 + n>> ELSE Digits(n \div 10) \o <<48 + (n % 10)>>

\* str(n) of an int: a minus sign for a negative one.
str(n) == IF n < 0 THEN <<45>> \o Digits(0 - n) ELSE Digits(n)

(***************************************************************************)
(* Arbitrary-precision int                                                 *)
(***************************************************************************)

\* The base of one limb of an int: seven decimal digits.
LONG_BASE == 10000000

\* The decimal digits int() accepts, and their values.
is_decimal(c) == c \in 48..57 \/ c = 1634
decimal_value(c) == IF c = 1634 THEN 2 ELSE c - 48

Pow10 == <<10, 100, 1000, 10000, 100000, 1000000, 10000000>>

RECURSIVE digits_value(_, _, _)
\* The value of the digits ds[lo..hi] (at most seven of them), by halves.
digits_value(ds, lo, hi) ==
    IF lo > hi THEN 0
    ELSE IF lo = hi THEN decimal_value(ds[lo])
    ELSE LET mid == (lo + hi) \div 2
         IN  digits_value(ds, lo, mid) * Pow10[hi - mid] + digits_value(ds, mid + 1, hi)

\* The magnitude of a decimal numeral, most significant digit first: limb j
\* (the lowest first) is the value of seven digits, counted from the right.
long_from_digits(ds) ==
    [j \in 1..((Len(ds) + 6) \div 7) |->
        digits_value(ds, IF Len(ds) - 7 * j + 1 < 1 THEN 1 ELSE Len(ds) - 7 * j + 1,
                     Len(ds) - 7 * (j - 1))]

\* A mutation of int: a fixed-width integer, which keeps the low 2 limbs.
int_fixed_width(s) ==
    LET neg  == s # <<>> /\ s[1] = 45
        body == IF neg THEN Tail(s) ELSE s
        all  == long_from_digits(body)
    IN  IF body = <<>> \/ \E i \in 1..Len(body) : ~is_decimal(body[i])
        THEN [raised |-> TRUE, neg |-> FALSE, limbs |-> <<>>]
        ELSE [raised |-> FALSE, neg |-> neg,
              limbs |-> SubSeq(all, 1, IF Len(all) < 2 THEN Len(all) ELSE 2)]

\* int(s): an optional minus sign, then one or more decimal digits; anything
\* else is a ValueError.  (numeric_str never holds a blank, "+" or "_".)
int(s) ==
    LET neg  == s # <<>> /\ s[1] = 45
        body == IF neg THEN Tail(s) ELSE s
    IN  IF body = <<>> \/ \E i \in 1..Len(body) : ~is_decimal(body[i])
        THEN [raised |-> TRUE, neg |-> FALSE, limbs |-> <<>>]
        ELSE [raised |-> FALSE, neg |-> neg, limbs |-> long_from_digits(body)]

RECURSIVE long_rem(_, _, _)
\* The remainder by a small n of the limbs from i up, the top limb first.
long_rem(limbs, i, n) ==
    IF i > Len(limbs) THEN 0
    ELSE (long_rem(limbs, i + 1, n) * LONG_BASE + limbs[i]) % n

\* x % n for an int x and a small n > 0: the result has the sign of n.
long_mod(x, n) ==
    LET m == long_rem(x.limbs, 1, n)
    IN  IF x.neg /\ m # 0 THEN n - m ELSE m

(***************************************************************************)
(* Country registry                                                        *)
(***************************************************************************)

\* The dictionary literal: code, length, bank_code_offset, bank_code_length, name.
SPEC_ROWS == <<
    <<"A", "D", 24, 4, 4, "Andorra">>,
    <<"A", "E", 23, 4, 3, "United Arab Emirates">>,
    <<"A", "L", 28, 4, 3, "Albania">>,
    <<"A", "T", 20, 4, 5, "Austria">>,
    <<"A", "Z", 28, 4, 4, "Azerbaijan">>,
    <<"B", "A", 20, 4, 3, "Bosnia and Herzegovina">>,
    <<"B", "E", 16, 4, 3, "Belgium">>,
    <<"B", "G", 22, 4, 4, "Bulgaria">>,
    <<"B", "H", 22, 4, 4, "Bahrain">>,
    <<"B", "R", 29, 4, 8, "Brazil">>,
    <<"B", "Y", 28, 4, 4, "Belarus">>,
    <<"C", "H", 21, 4, 5, "Switzerland">>,
    <<"C", "R", 22, 4, 4, "Costa Rica">>,
    <<"C", "Y", 28, 4, 3, "Cyprus">>,
    <<"C", "Z", 24, 4, 4, "Czech Republic">>,
    <<"D", "E", 22, 4, 8, "Germany">>,
    <<"D", "K", 18, 4, 4, "Denmark">>,
    <<"D", "O", 28, 4, 4, "Dominican Republic">>,
    <<"E", "E", 20, 4, 2, "Estonia">>,
    <<"E", "G", 29, 4, 4, "Egypt">>,
    <<"E", "S", 24, 4, 4, "Spain">>,
    <<"F", "I", 18, 4, 3, "Finland">>,
    <<"F", "O", 18, 4, 4, "Faroe Islands">>,
    <<"F", "R", 27, 4, 5, "France">>,
    <<"G", "B", 22, 4, 4, "United Kingdom">>,
    <<"G", "E", 22, 4, 2, "Georgia">>,
    <<"G", "I", 23, 4, 4, "Gibraltar">>,
    <<"G", "L", 18, 4, 4, "Greenland">>,
    <<"G", "R", 27, 4, 3, "Greece">>,
    <<"G", "T", 28, 4, 4, "Guatemala">>,
    <<"H", "R", 21, 4, 7, "Croatia">>,
    <<"H", "U", 28, 4, 3, "Hungary">>,
    <<"I", "E", 22, 4, 4, "Ireland">>,
    <<"I", "L", 23, 4, 3, "Israel">>,
    <<"I", "Q", 23, 4, 4, "Iraq">>,
    <<"I", "S", 26, 4, 4, "Iceland">>,
    <<"I", "T", 27, 4, 5, "Italy">>,
    <<"J", "O", 30, 4, 4, "Jordan">>,
    <<"K", "W", 30, 4, 4, "Kuwait">>,
    <<"K", "Z", 20, 4, 3, "Kazakhstan">>,
    <<"L", "B", 28, 4, 4, "Lebanon">>,
    <<"L", "C", 32, 4, 4, "Saint Lucia">>,
    <<"L", "I", 21, 4, 5, "Liechtenstein">>,
    <<"L", "T", 20, 4, 5, "Lithuania">>,
    <<"L", "U", 20, 4, 3, "Luxembourg">>,
    <<"L", "V", 21, 4, 4, "Latvia">>,
    <<"M", "C", 27, 4, 5, "Monaco">>,
    <<"M", "D", 24, 4, 2, "Moldova">>,
    <<"M", "E", 22, 4, 3, "Montenegro">>,
    <<"M", "K", 19, 4, 3, "North Macedonia">>,
    <<"M", "R", 27, 4, 5, "Mauritania">>,
    <<"M", "T", 31, 4, 4, "Malta">>,
    <<"M", "U", 30, 4, 6, "Mauritius">>,
    <<"N", "L", 18, 4, 4, "Netherlands">>,
    <<"N", "O", 15, 4, 4, "Norway">>,
    <<"P", "K", 24, 4, 4, "Pakistan">>,
    <<"P", "L", 28, 4, 8, "Poland">>,
    <<"P", "S", 29, 4, 4, "Palestine">>,
    <<"P", "T", 25, 4, 4, "Portugal">>,
    <<"Q", "A", 29, 4, 4, "Qatar">>,
    <<"R", "O", 24, 4, 4, "Romania">>,
    <<"R", "S", 22, 4, 3, "Serbia">>,
    <<"S", "A", 24, 4, 2, "Saudi Arabia">>,
    <<"S", "C", 31, 4, 4, "Seychelles">>,
    <<"S", "E", 24, 4, 3, "Sweden">>,
    <<"S", "I", 19, 4, 5, "Slovenia">>,
    <<"S", "K", 24, 4, 4, "Slovakia">>,
    <<"S", "M", 27, 4, 5, "San Marino">>,
    <<"S", "T", 25, 4, 4, "São Tomé and Príncipe">>,
    <<"S", "V", 28, 4, 4, "El Salvador">>,
    <<"T", "L", 23, 4, 3, "East Timor">>,
    <<"T", "N", 24, 4, 2, "Tunisia">>,
    <<"T", "R", 26, 4, 5, "Turkey">>,
    <<"U", "A", 29, 4, 6, "Ukraine">>,
    <<"V", "A", 22, 4, 3, "Vatican City">>,
    <<"V", "G", 24, 4, 4, "British Virgin Islands">>,
    <<"X", "K", 20, 4, 4, "Kosovo">>
>>

SpecKey(row) == Text(<<row[1], row[2]>>)
\* A mutation of SpecRecord: the bank code's offset and length swapped.
SpecRecord_swapped(row) ==
    [length |-> row[3], bank_code_offset |-> row[5],
     bank_code_length |-> row[4], name |-> row[6]]

SpecRecord(row) ==
    [length |-> row[3], bank_code_offset |-> row[4],
     bank_code_length |-> row[5], name |-> row[6]]

\* COUNTRY_SPECS as the module-level assignment builds it.
COUNTRY_SPECS_LITERAL ==
    [k \in {SpecKey(SPEC_ROWS[i]) : i \in 1..Len(SPEC_ROWS)} |->
        SpecRecord(SPEC_ROWS[CHOOSE i \in 1..Len(SPEC_ROWS) : SpecKey(SPEC_ROWS[i]) = k])]

VARIABLES
    COUNTRY_SPECS,  \* the module-level dict: code -> spec dict
    pc,             \* "idle": no call in progress; "returned": a call has returned
    op,             \* the function last called, "" when idle
    arg,            \* its argument
    ret,            \* its outcome
    writes          \* stores a caller has made through a returned spec dict

vars == <<COUNTRY_SPECS, pc, op, arg, ret, writes>>

(***************************************************************************)
(* Validation engine                                                       *)
(***************************************************************************)

\* The outcome of a call: a returned value, or a raised exception.
Returns(v) == [raised |-> FALSE, value |-> v, exc |-> ""]
Raises(e)  == [raised |-> TRUE, value |-> FALSE, exc |-> e]

_sanitize(iban) == upper(re_sub(iban))

\* A mutation of numeric_of: the letters counted from 1 (A=1, ..., Z=26).
numeric_of_from_one(char) ==
    IF isdigit(<<char>>) THEN <<char>> ELSE str(char - 65 + 1)

\* The loop body of _mod97_check: what one character adds to numeric_str
\* (ord(char) is the character's code point, ord("A") is 65).
numeric_of(char) ==
    IF isdigit(<<char>>) THEN <<char>> ELSE str(char - 65 + 10)

\* The loop of _mod97_check over rearranged.
numeric_str_of(rearranged) ==
    Concat([i \in 1..Len(rearranged) |-> numeric_of(rearranged[i])], 1, Len(rearranged))

\* A mutation of _mod97_check: the first 4 characters are not moved to the end.
_mod97_check_unmoved(iban) ==
    LET numeric_str == numeric_str_of(iban)
        n           == int(numeric_str)
    IN  IF n.raised THEN Raises("ValueError")
        ELSE Returns(long_mod(n, 97) = 1)

_mod97_check(iban) ==
    LET rearranged  == SliceFrom(iban, 4) \o Slice(iban, 0, 4)
        numeric_str == numeric_str_of(rearranged)
        n           == int(numeric_str)
    IN  IF n.raised THEN Raises("ValueError")
        ELSE Returns(long_mod(n, 97) = 1)

\* validate_iban's outcome, with the checks it evaluated, in order.
Checked(o, checks) ==
    [raised |-> o.raised, value |-> o.value, exc |-> o.exc, checks |-> checks]

\* A mutation of length_out_of_bounds: the upper bound forgotten.
length_out_of_bounds_no_max(cleaned) == Len(cleaned) < 15

\* The basic format check's condition.
length_out_of_bounds(cleaned) == Len(cleaned) < 15 \/ Len(cleaned) > 34

\* A mutation of wrong_country_length: only a too long IBAN is refused.
wrong_country_length_too_long(cleaned, country_code) ==
    /\ country_code \in DOMAIN COUNTRY_SPECS
    /\ Len(cleaned) > COUNTRY_SPECS[country_code].length

\* A mutation of wrong_country_length: a country outside the registry is refused.
wrong_country_length_or_unknown(cleaned, country_code) ==
    \/ country_code \notin DOMAIN COUNTRY_SPECS
    \/ Len(cleaned) # COUNTRY_SPECS[country_code].length

\* The country-specific length check's condition: the country is known and
\* the length is not its expected_length.
wrong_country_length(cleaned, country_code) ==
    /\ country_code \in DOMAIN COUNTRY_SPECS
    /\ Len(cleaned) # COUNTRY_SPECS[country_code].length

validate_iban(iban) ==
    LET cleaned      == _sanitize(iban)
        country_code == Slice(cleaned, 0, 2)
    IN  IF length_out_of_bounds(cleaned)
        THEN Checked(Returns(FALSE), <<"length">>)
        ELSE IF ~isalpha(Slice(cleaned, 0, 2))
        THEN Checked(Returns(FALSE), <<"length", "country_code">>)
        ELSE IF ~isdigit(Slice(cleaned, 2, 4))
        THEN Checked(Returns(FALSE), <<"length", "country_code", "check_digits">>)
        ELSE IF wrong_country_length(cleaned, country_code)
        THEN Checked(Returns(FALSE),
                     <<"length", "country_code", "check_digits", "country_length">>)
        ELSE Checked(_mod97_check(cleaned),
                     <<"length", "country_code", "check_digits", "country_length",
                       "mod97">>)

\* None, and a reference to the spec dict stored under a key of COUNTRY_SPECS
\* (the dict itself, not a copy).
None == [found |-> FALSE, ref |-> <<>>]
SpecDict(key) == [found |-> TRUE, ref |-> key]

\* A mutation of get_country_spec: the code is looked up as given.
get_country_spec_as_given(country_code) ==
    IF country_code \in DOMAIN COUNTRY_SPECS THEN Returns(SpecDict(country_code))
    ELSE Returns(None)

get_country_spec(country_code) ==
    LET key == upper(country_code)
    IN  IF key \in DOMAIN COUNTRY_SPECS THEN Returns(SpecDict(key))
        ELSE Returns(None)

(***************************************************************************)
(* Callers and their arguments                                             *)
(***************************************************************************)

\* Lengths the generated arguments reach (one past the longest IBAN).
MaxSweepLen == 35
\* Stores a caller makes through a spec dict it was handed.
MaxWrites == 1

GB_IBAN == Text(<<"G", "B", "8", "2", "W", "E", "S", "T", "1", "2", "3", "4", "5", "6", "9", "8", "7", "6", "5", "4", "3", "2">>)
GB_SPACED ==
    Text(<<"G", "B", "8", "2", " ", "W", "E", "S", "T", " ", "1", "2", "3", "4", " ", "5", "6", "9", "8", " ", "7", "6", "5", "4", " ", "3", "2">>)
GB_LOWER_DASHED ==
    Text(<<"g", "b", "8", "2", "-", "w", "e", "s", "t", "-", "1", "2", "3", "4", "-", "5", "6", "9", "8", "-", "7", "6", "5", "4", "-", "3", "2">>)
DE_IBAN == Text(<<"D", "E", "8", "9", "3", "7", "0", "4", "0", "0", "4", "4", "0", "5", "3", "2", "0", "1", "3", "0", "0", "0">>)
DE_SHORT == Text(<<"D", "E", "8", "9", "3", "7", "0", "4", "0", "0", "4", "4", "0", "5", "3", "2", "0", "1", "3", "0", "0">>)
NO_IBAN == Text(<<"N", "O", "9", "3", "8", "6", "0", "1", "1", "1", "1", "7", "9", "4", "7">>)
LC_IBAN == Text(<<"L", "C", "5", "5", "H", "E", "M", "M", "0", "0", "0", "1", "0", "0", "0", "1", "0", "0", "1", "2", "0", "0", "1", "2", "0", "0", "0", "2", "3", "0", "1", "5">>)
BLANKS == Text(<<" ", " ", " ">>)
PUNCTUATION == Text(<<"-", ".", "/", "!", "_", "+">>)

Literals ==
    {<<>>, BLANKS, PUNCTUATION, GB_IBAN, GB_SPACED, GB_LOWER_DASHED, DE_IBAN,
     DE_SHORT, NO_IBAN, LC_IBAN, DE_IBAN \o DE_IBAN, GB_SPACED \o BLANKS \o BLANKS \o BLANKS,
     <<233>> \o DE_IBAN \o <<1634, 178>>}

Bases == {GB_IBAN, DE_IBAN, NO_IBAN, LC_IBAN}

ReplaceAt(s, i, c) == [s EXCEPT ![i] = c]
InsertAt(s, i, c) == SubSeq(s, 1, i) \o <<c>> \o SubSeq(s, i + 1, Len(s))

\* One character of an IBAN replaced: by each digit, a letter of either case,
\* a separator, or a character outside ASCII.
ReplaceChars == (48..57) \cup {65, 122, 32, 45} \cup {178, 233, 1634}
Replaced == {ReplaceAt(b, i, c) : <<b, i, c>> \in
                {t \in Bases \X (1..MaxSweepLen) \X ReplaceChars : t[2] <= Len(t[1])}}

\* One character inserted into an IBAN.
InsertChars == {32, 45, 55, 223, 305}
Inserted == {InsertAt(b, i, c) : <<b, i, c>> \in
                {t \in Bases \X (0..MaxSweepLen) \X InsertChars : t[2] <= Len(t[1])}}

\* A country code, two check digits and a BBAN of a given length.
BodyPattern == Text(<<"3", "7", "0", "4", "0", "0", "4", "4", "0", "5", "3", "2", "0", "1", "3", "0", "0", "0", "W", "E", "S", "T", "1", "2", "3", "4", "5", "6", "9", "8", "7", "6", "Z", "Q", "9", "A">>)
Body(n) == [i \in 1..n |-> BodyPattern[((i - 1) % Len(BodyPattern)) + 1]]
Sweep(cc, d1, d2, len) == cc \o <<48 + d1, 48 + d2>> \o Body(len - 4)

ZZ == Text(<<"Z", "Z">>)
DE == Text(<<"D", "E">>)

SweptUnknown == {Sweep(ZZ, d1, d2, len) : <<d1, d2, len>> \in
                    (0..9) \X (0..9) \X (14..MaxSweepLen)}
SweptGermany == {Sweep(DE, d1, d2, len) : <<d1, d2, len>> \in
                    (0..9) \X (0..9) \X (21..23)}

ValidateInputs == Literals \cup Replaced \cup Inserted \cup SweptUnknown \cup SweptGermany

\* Arguments of _mod97_check: sanitized text of every length from 4, the longest
\* numerals (letters only), and text that was not sanitized.
Letters(a, b, len) == <<a, b>> \o [i \in 1..(len - 2) |-> 90]
Mod97Inputs ==
    {Sweep(ZZ, d1, d2, len) : <<d1, d2, len>> \in (0..9) \X (0..9) \X ((4..14) \cup {34})}
    \cup {Letters(a, b, len) : <<a, b, len>> \in {65, 77, 90} \X {65, 77, 90} \X (4..MaxSweepLen)}
    \cup Bases
    \cup {<<>>, BLANKS, GB_SPACED, GB_LOWER_DASHED, Text(<<"-", "8">>), Text(<<"G", "B">>),
          <<178, 48, 48, 48, 49>>, <<1634, 48, 48, 48, 49>>}

\* Arguments of get_country_spec.
CountryCodeInputs ==
    {DE, ZZ, <<>>, Text(<<"d", "e">>), Text(<<"D", "e">>), Text(<<"g", "b">>),
     Text(<<"N", "O">>), Text(<<"n", "o">>), Text(<<"D", "E", "U">>), Text(<<" ", "D", "E">>),
     Text(<<"D">>), <<305, 69>>, <<305, 101>>, <<223>>, <<233, 69>>, Text(<<"L", "C">>),
     Text(<<"x", "k">>), Text(<<"0", "0">>)}

(***************************************************************************)
(* The state machine                                                       *)
(***************************************************************************)

Init ==
    /\ COUNTRY_SPECS = COUNTRY_SPECS_LITERAL
    /\ pc = "idle"
    /\ op = ""
    /\ arg = <<>>
    /\ ret = Returns(FALSE)
    /\ writes = 0

\* A caller calls validate_iban(iban), which runs to its return.
CallValidateIban ==
    /\ pc = "idle"
    /\ \E iban \in ValidateInputs :
        /\ op' = "validate_iban"
        /\ arg' = iban
        /\ ret' = validate_iban(iban)
    /\ pc' = "returned"
    /\ UNCHANGED <<COUNTRY_SPECS, writes>>

\* A caller calls get_country_spec(country_code).
CallGetCountrySpec ==
    /\ pc = "idle"
    /\ \E country_code \in CountryCodeInputs :
        /\ op' = "get_country_spec"
        /\ arg' = country_code
        /\ ret' = get_country_spec(country_code)
    /\ pc' = "returned"
    /\ UNCHANGED <<COUNTRY_SPECS, writes>>

\* A caller calls _mod97_check(iban).
CallMod97Check ==
    /\ pc = "idle"
    /\ \E iban \in Mod97Inputs :
        /\ op' = "_mod97_check"
        /\ arg' = iban
        /\ ret' = _mod97_check(iban)
    /\ pc' = "returned"
    /\ UNCHANGED <<COUNTRY_SPECS, writes>>

\* The caller is done with the outcome; the next call can start.
Return ==
    /\ pc = "returned"
    /\ pc' = "idle"
    /\ op' = ""
    /\ arg' = <<>>
    /\ ret' = Returns(FALSE)
    /\ UNCHANGED <<COUNTRY_SPECS, writes>>

\* The caller stores into the dict get_country_spec handed it: the dict is the
\* registry's own entry, so the store lands in COUNTRY_SPECS.
CallerStore ==
    /\ pc = "returned"
    /\ op = "get_country_spec"
    /\ ~ret.raised
    /\ ret.value.found
    /\ writes < MaxWrites
    /\ COUNTRY_SPECS' = [COUNTRY_SPECS EXCEPT ![ret.value.ref].length = @ - 1]
    /\ writes' = writes + 1
    /\ UNCHANGED <<pc, op, arg, ret>>

Next ==
    \/ CallValidateIban
    \/ CallGetCountrySpec
    \/ CallMod97Check
    \/ Return

\* The library's functions, called in any order by callers that only read
\* what they are handed.
Spec == Init /\ [][Next]_vars

NextWithStores == Next \/ CallerStore

\* The same, with callers that also store into the dicts they are handed.
SpecWithStores == Init /\ [][NextWithStores]_vars

(***************************************************************************)
(* Properties                                                              *)
(***************************************************************************)

IsLetter(c) == c \in 65..90 \/ c \in 97..122
IsDecimalDigit(c) == c \in 48..57
IsUpperAlnum(s) == \A i \in 1..Len(s) : s[i] \in 48..57 \/ s[i] \in 65..90

Called(f) == pc = "returned" /\ op = f

\* The canonical form of the argument of the call that has returned.
Canonical == _sanitize(arg)

\* The checks of validate_iban, in order, and what each requires of the
\* canonical form c.
CheckOrder == <<"length", "country_code", "check_digits", "country_length", "mod97">>
CheckHolds(name, c) ==
    CASE name = "length" -> 15 <= Len(c) /\ Len(c) <= 34
      [] name = "country_code" -> Len(c) >= 2 /\ IsLetter(c[1]) /\ IsLetter(c[2])
      [] name = "check_digits" ->
            Len(c) >= 4 /\ IsDecimalDigit(c[3]) /\ IsDecimalDigit(c[4])
      [] name = "country_length" ->
            Slice(c, 0, 2) \in DOMAIN COUNTRY_SPECS
                => Len(c) = COUNTRY_SPECS[Slice(c, 0, 2)].length
      [] name = "mod97" -> ~_mod97_check(c).raised /\ _mod97_check(c).value
\* How many checks are evaluated: up to and including the first that fails.
Evaluated(c) ==
    IF \E i \in 1..Len(CheckOrder) : ~CheckHolds(CheckOrder[i], c)
    THEN CHOOSE i \in 1..Len(CheckOrder) :
            /\ ~CheckHolds(CheckOrder[i], c)
            /\ \A j \in 1..(i - 1) : CheckHolds(CheckOrder[j], c)
    ELSE Len(CheckOrder)

\* C1: validate_iban returns a boolean for every text: no call ends in an
\* exception, whatever the sanitizer, the checks and the MOD-97 expansion meet.
C1_ValidateReturnsBoolean ==
    Called("validate_iban") =>
        /\ ~ret.raised
        /\ ret.exc = ""
        /\ ret.value \in BOOLEAN
\* An empty canonical form, on which the MOD-97 check would raise, gets False.
C1_Witness ==
    /\ Called("validate_iban")
    /\ arg # <<>>
    /\ Canonical = <<>>
    /\ _mod97_check(Canonical).raised
    /\ ~ret.raised
    /\ ret.value = FALSE

\* C2: validate_iban is true exactly when the canonical form passes the five
\* checks (length in 15..34, two letters, two digits, the registry's length
\* when the country is known, MOD-97), and it evaluates the checks in order,
\* stopping at the first that fails.
C2_ValidateIffAllChecks ==
    Called("validate_iban") =>
        /\ ~ret.raised
        /\ ret.value = (\A i \in 1..Len(CheckOrder) : CheckHolds(CheckOrder[i], Canonical))
        /\ ret.checks = SubSeq(CheckOrder, 1, Evaluated(Canonical))
\* A canonical form of 35 characters that passes every later check is refused.
C2_Witness ==
    /\ Called("validate_iban")
    /\ Len(Canonical) = 35
    /\ \A i \in 2..Len(CheckOrder) : CheckHolds(CheckOrder[i], Canonical)
    /\ ret.value = FALSE
    /\ ret.checks = <<"length">>

\* C3: a canonical form that starts with a registry key and has not that
\* entry's length is refused, whatever its checksum; DE8937040044053201300 is.
C3_CountryLengthEnforced ==
    Called("validate_iban") =>
        /\ (/\ Len(Canonical) >= 2
            /\ Slice(Canonical, 0, 2) \in DOMAIN COUNTRY_SPECS
            /\ Len(Canonical) # COUNTRY_SPECS[Slice(Canonical, 0, 2)].length)
           => (~ret.raised /\ ret.value = FALSE)
        /\ arg = DE_SHORT => (~ret.raised /\ ret.value = FALSE)
\* A German IBAN one character short whose checksum passes is refused.
C3_Witness ==
    /\ Called("validate_iban")
    /\ Slice(Canonical, 0, 2) = DE
    /\ Len(Canonical) = COUNTRY_SPECS[DE].length - 1
    /\ CheckHolds("mod97", Canonical)
    /\ ret.value = FALSE

\* C4: for a canonical form of 15..34 characters with two letters that are no
\* registry key and two digits, validate_iban returns what the MOD-97 check
\* of the canonical form returns.
C4_UnknownCountryTolerated ==
    (/\ Called("validate_iban")
     /\ CheckHolds("length", Canonical)
     /\ CheckHolds("country_code", Canonical)
     /\ CheckHolds("check_digits", Canonical)
     /\ Slice(Canonical, 0, 2) \notin DOMAIN COUNTRY_SPECS)
    => (/\ ~ret.raised
        /\ ~_mod97_check(Canonical).raised
        /\ ret.value = _mod97_check(Canonical).value)
\* An IBAN of 34 characters of a country outside the registry is accepted.
C4_Witness ==
    /\ Called("validate_iban")
    /\ Len(Canonical) = 34
    /\ Slice(Canonical, 0, 2) \notin DOMAIN COUNTRY_SPECS
    /\ ret.value = TRUE

\* C5: the two known-good IBANs are accepted, the first with its blanks.
C5_KnownGoodAccepted ==
    (Called("validate_iban") /\ arg \in {GB_SPACED, DE_IBAN})
        => (~ret.raised /\ ret.value = TRUE)
C5_Witness ==
    /\ Called("validate_iban")
    /\ arg = GB_SPACED
    /\ Canonical = GB_IBAN
    /\ Len(Canonical) = COUNTRY_SPECS[Slice(Canonical, 0, 2)].length

\* One digit of s, at position i (from 1), incremented modulo 10.
DigitFlipped(s, i) == ReplaceAt(s, i, 48 + ((s[i] - 48 + 1) % 10))
DigitFlips ==
    {DigitFlipped(s, i) : <<s, i>> \in
        {t \in {GB_IBAN, DE_IBAN} \X (5..34) :
            t[2] <= Len(t[1]) /\ IsDecimalDigit(t[1][t[2]])}}

\* C6: either known-good IBAN with one digit of its BBAN incremented modulo
\* 10 is refused.
C6_DigitFlipRefused ==
    (Called("validate_iban") /\ arg \in DigitFlips)
        => (~ret.raised /\ ret.value = FALSE)
\* The last digit of the British IBAN flipped: refused by the checksum alone.
C6_Witness ==
    /\ Called("validate_iban")
    /\ arg = DigitFlipped(GB_IBAN, Len(GB_IBAN))
    /\ ret.checks = CheckOrder
    /\ ret.value = FALSE

\* C7: get_country_spec(c) returns the entry whose key is c uppercased, None
\* when there is none, and raises nothing; "de" and "DE" get Germany's entry,
\* "ZZ" gets None.
C7_LookupCaseInsensitive ==
    Called("get_country_spec") =>
        /\ ~ret.raised
        /\ (\E k \in DOMAIN COUNTRY_SPECS : k = upper(arg))
              => ret.value = [found |-> TRUE, ref |-> upper(arg)]
        /\ (\A k \in DOMAIN COUNTRY_SPECS : k # upper(arg)) => ret.value = None
        /\ arg \in {DE, Text(<<"d", "e">>)} =>
              /\ ret.value = [found |-> TRUE, ref |-> DE]
              /\ COUNTRY_SPECS[ret.value.ref].name = "Germany"
        /\ arg = ZZ => ret.value = None
C7_Witness ==
    /\ Called("get_country_spec")
    /\ arg = Text(<<"d", "e">>)
    /\ ret.value.found
    /\ COUNTRY_SPECS[ret.value.ref].length = 22

\* The entries the interface requires: code, length, bank_code_length.
REQUIRED_ENTRIES == <<
    <<"A", "D", 24, 4>>, <<"A", "E", 23, 3>>, <<"A", "L", 28, 3>>, <<"A", "T", 20, 5>>,
    <<"A", "Z", 28, 4>>, <<"B", "A", 20, 3>>, <<"B", "E", 16, 3>>, <<"B", "G", 22, 4>>,
    <<"B", "H", 22, 4>>, <<"B", "R", 29, 8>>, <<"B", "Y", 28, 4>>, <<"C", "H", 21, 5>>,
    <<"C", "R", 22, 4>>, <<"C", "Y", 28, 3>>, <<"C", "Z", 24, 4>>, <<"D", "E", 22, 8>>,
    <<"D", "K", 18, 4>>, <<"D", "O", 28, 4>>, <<"E", "E", 20, 2>>, <<"E", "G", 29, 4>>,
    <<"E", "S", 24, 4>>, <<"F", "I", 18, 3>>, <<"F", "O", 18, 4>>, <<"F", "R", 27, 5>>,
    <<"G", "B", 22, 4>>, <<"G", "E", 22, 2>>, <<"G", "I", 23, 4>>, <<"G", "L", 18, 4>>,
    <<"G", "R", 27, 3>>, <<"G", "T", 28, 4>>, <<"H", "R", 21, 7>>, <<"H", "U", 28, 3>>,
    <<"I", "E", 22, 4>>, <<"I", "L", 23, 3>>, <<"I", "Q", 23, 4>>, <<"I", "S", 26, 4>>,
    <<"I", "T", 27, 5>>, <<"J", "O", 30, 4>>, <<"K", "W", 30, 4>>, <<"K", "Z", 20, 3>>,
    <<"L", "B", 28, 4>>, <<"L", "C", 32, 4>>, <<"L", "I", 21, 5>>, <<"L", "T", 20, 5>>,
    <<"L", "U", 20, 3>>, <<"L", "V", 21, 4>>, <<"M", "C", 27, 5>>, <<"M", "D", 24, 2>>,
    <<"M", "E", 22, 3>>, <<"M", "K", 19, 3>>, <<"M", "R", 27, 5>>, <<"M", "T", 31, 4>>,
    <<"M", "U", 30, 6>>, <<"N", "L", 18, 4>>, <<"N", "O", 15, 4>>, <<"P", "K", 24, 4>>,
    <<"P", "L", 28, 8>>, <<"P", "S", 29, 4>>, <<"P", "T", 25, 4>>, <<"Q", "A", 29, 4>>,
    <<"R", "O", 24, 4>>, <<"R", "S", 22, 3>>, <<"S", "A", 24, 2>>, <<"S", "C", 31, 4>>,
    <<"S", "E", 24, 3>>, <<"S", "I", 19, 5>>, <<"S", "K", 24, 4>>, <<"S", "M", 27, 5>>,
    <<"S", "T", 25, 4>>, <<"S", "V", 28, 4>>, <<"T", "L", 23, 3>>, <<"T", "N", 24, 2>>,
    <<"T", "R", 26, 5>>, <<"U", "A", 29, 6>>, <<"V", "A", 22, 3>>, <<"V", "G", 24, 4>>,
    <<"X", "K", 20, 4>>
>>

\* C8: the registry holds each of the 77 required codes with the required
\* length and bank_code_length, and every entry has bank_code_offset 4, a
\* length in 15..34 and room for its bank code.
C8_RegistryTable ==
    /\ Cardinality({<<r[1], r[2]>> : r \in {REQUIRED_ENTRIES[i] : i \in 1..Len(REQUIRED_ENTRIES)}}) = 77
    /\ \A i \in 1..Len(REQUIRED_ENTRIES) :
        LET r == REQUIRED_ENTRIES[i]
            k == Text(<<r[1], r[2]>>)
        IN  /\ k \in DOMAIN COUNTRY_SPECS
            /\ COUNTRY_SPECS[k].length = r[3]
            /\ COUNTRY_SPECS[k].bank_code_length = r[4]
    /\ \A k \in DOMAIN COUNTRY_SPECS :
        /\ COUNTRY_SPECS[k].bank_code_offset = 4
        /\ COUNTRY_SPECS[k].length \in 15..34
        /\ COUNTRY_SPECS[k].length
              >= COUNTRY_SPECS[k].bank_code_offset + COUNTRY_SPECS[k].bank_code_length
\* Saint Lucia's entry, the longest, has been handed to a caller.
C8_Witness ==
    /\ Called("get_country_spec")
    /\ ret.value.found
    /\ COUNTRY_SPECS[ret.value.ref].length = 32
    /\ COUNTRY_SPECS[ret.value.ref].bank_code_length = 4

\* C9: the registry is read-only: whatever callers have called, and whatever
\* they have done with a spec dict they were handed, COUNTRY_SPECS has its
\* initial contents.
C9_RegistryReadOnly == COUNTRY_SPECS = COUNTRY_SPECS_LITERAL

\* The numeral of the MOD-97 check: digits as they are, A=10, ..., Z=35.
LetterValue(c) == c - 55
Numeral(s) ==
    Concat([i \in 1..Len(s) |->
                IF IsDecimalDigit(s[i]) THEN <<s[i] - 48>>
                ELSE <<LetterValue(s[i]) \div 10, LetterValue(s[i]) % 10>>],
           1, Len(s))
\* One step r := (r * 10 + digit) mod 97 is the map r |-> (a * r + b) mod 97
\* with a = 10, b = digit; the steps over digits[lo..hi], left to right, compose
\* to one such map (composition is associative, so it is formed by halves).
RECURSIVE Steps(_, _, _)
Steps(digits, lo, hi) ==
    IF lo > hi THEN [a |-> 1, b |-> 0]
    ELSE IF lo = hi THEN [a |-> 10, b |-> digits[lo] % 97]
    ELSE LET first == Steps(digits, lo, (lo + hi) \div 2)
             then  == Steps(digits, ((lo + hi) \div 2) + 1, hi)
         IN  [a |-> (then.a * first.a) % 97, b |-> (then.a * first.b + then.b) % 97]
\* The streaming remainder of the digits, from r = 0.
StreamingRemainder(digits) == Steps(digits, 1, Len(digits)).b

\* C10: on uppercase alphanumeric text of 4..34 characters, _mod97_check is
\* true exactly when the numeral of s[4:] + s[0:4] is 1 modulo 97; the big
\* integer's remainder is the streaming remainder of the numeral's digits.
C10_Mod97IsStreamingRemainder ==
    (/\ Called("_mod97_check")
     /\ IsUpperAlnum(arg)
     /\ 4 <= Len(arg)
     /\ Len(arg) <= 34)
    => (/\ ~ret.raised
        /\ ret.value =
            (StreamingRemainder(Numeral(SubSeq(arg, 5, Len(arg)) \o SubSeq(arg, 1, 4))) = 1))
\* A valid text of 34 characters: a numeral far beyond a machine word.
C10_Witness ==
    /\ Called("_mod97_check")
    /\ IsUpperAlnum(arg)
    /\ Len(arg) = 34
    /\ Len(Numeral(arg)) >= 40
    /\ ret.value = TRUE

====
